---------------------------- MODULE Spec2Model ----------------------------
(***************************************************************************)
(* Model of the supernet training driver (train_dynamic.py: candidate-pool *)
(* construction, the main epoch loop with its ranking-stability monitor)   *)
(* and of the elastic convolution module (fairseq/modules/conv_super.py).  *)
(*                                                                         *)
(* Three specifications share the variables:                               *)
(*   Spec      the main training loop of main(), from the loop head on;    *)
(*   SpecPool  the candidate-pool construction loop of main();             *)
(*   SpecConv  one Conv2dSuper object and the calls made on it.            *)
(***************************************************************************)
EXTENDS Integers, Sequences, FiniteSets, TLC

VARIABLES
    pc,                \* position of main(): which statement runs next
    args,              \* the parsed command line (never assigned by main's loop)
    lr,                \* main: lr
    epoch,             \* epoch_itr.epoch
    num_updates,       \* trainer.get_num_updates()
    stop_training,     \* main: stop_training
    ranking_counter,   \* main: ranking_counter (the spec's stability_counter)
    is_ranking_stable, \* main: is_ranking_stable of the latest rank check
    corr,              \* main: corr (the spec's previous_correlation)
    prev_loss,         \* main: prev_loss (the spec's previous_loss_vector)
    sampled_archs,     \* main: sampled_archs (the candidate pool)
    hash_tables,       \* main: hash_tables
    stable_hist,       \* history: is_ranking_stable of every epoch so far
    prev_corr_in,      \* history: prev_corr_ argument of the latest get_rank_corr
    phases,            \* history: what the current epoch has run so far, in order
    validated_archs,   \* history: the configurations the latest rank check validated
    conv,              \* the Conv2dSuper object's fields
    last_call,         \* history: the latest call made on the Conv2dSuper object
    recomputed,        \* history: whether that call ran _sample_parameters
    batch_i,           \* train: the batch index i of the for loop
    iterations_in_epoch, \* epoch_itr.iterations_in_epoch at the next train()
    log_output,        \* train: log_output of the latest trainer.train_step
    configs,           \* train: configs passed to the latest trainer.train_step
    active_config,     \* the configuration that is active on the trainer
    rng,               \* the state of Python's global random generator
    effects,           \* history: meter updates, log entries, errors raised, ...
    step_log,          \* history: one record per trainer.train_step call
    saved,             \* the training states that checkpoints hold
    resumes,           \* history: 1 in a run resumed from a checkpoint, else 0
    train_step_calls,  \* history: the number of trainer.train_step calls
    epoch_log          \* history: the iterations of the current train() call

vars == <<pc, args, lr, epoch, num_updates, stop_training, ranking_counter,
          is_ranking_stable, corr, prev_loss, sampled_archs,
          hash_tables, stable_hist, prev_corr_in, phases, validated_archs,
          conv, last_call, recomputed, batch_i, iterations_in_epoch, log_output,
          configs, active_config, rng, effects, step_log, saved, resumes,
          train_step_calls, epoch_log>>

driverVars == <<pc, lr, epoch, num_updates, stop_training, ranking_counter,
                is_ranking_stable, corr, prev_loss, stable_hist,
                prev_corr_in, phases, validated_archs>>
poolVars == <<sampled_archs, hash_tables>>
convVars == <<conv, last_call, recomputed>>
trainVars == <<batch_i, iterations_in_epoch, log_output, configs, active_config,
               rng, effects, step_log, saved, resumes, train_step_calls,
               epoch_log>>

\* Python's None
None == "None"

-----------------------------------------------------------------------------
(* Bounds of the model *)

MaxEpochRun == 3       \* epochs trained in one behaviour at most
MaxBatch == 1          \* successful updates of one epoch at most
MaxLr == 2             \* learning rates are 0..MaxLr
MaxSuperDim == 2       \* largest super_in_dim / super_out_dim
MaxKernel == 2         \* largest kernel_size

-----------------------------------------------------------------------------
(* Floats.  A correlation is NaN or the real number s / sqrt(d), d > 0,    *)
(* which is what scipy's tau-b  (con - dis) / sqrt(tot-xtie) /             *)
(* sqrt(tot-ytie)  denotes; comparisons are those of IEEE floats, where    *)
(* every comparison with NaN is false.                                     *)

NaN == [nan |-> TRUE, s |-> 0, d |-> 1]
Float(n, m) == [nan |-> FALSE, s |-> n, d |-> m * m]      \* the number n / m

Abs(n) == IF n < 0 THEN -n ELSE n
\* sign(x) * x^2 of the real number x = f.s / sqrt(f.d), times f.d
SgnSq(n) == n * Abs(n)

\* Python's  a > b  on floats
PyGt(a, b) ==
    /\ ~a.nan
    /\ ~b.nan
    /\ SgnSq(a.s) * b.d > SgnSq(b.s) * a.d

\* Python's  x or math.inf  on an int: math.inf when x is 0
OrInf(x) == [inf |-> x = 0, v |-> x]

\* Python's  a < b  for an int a and b an int or math.inf
PyLt(a, b) == b.inf \/ a < b.v

Min(a, b) == IF a < b THEN a ELSE b
Max(a, b) == IF a < b THEN b ELSE a
Range(f) == {f[i] : i \in DOMAIN f}

-----------------------------------------------------------------------------
(* The ranking-stability monitor *)

Pairs(n) == {p \in (1..n) \X (1..n) : p[1] < p[2]}

\* scipy.stats.kendalltau(x, y)[0], variant tau-b: NaN when either vector
\* is constant (or has fewer than two entries), else (con - dis) /
\* sqrt(tot - xtie) / sqrt(tot - ytie).
kendalltau(x, y) ==
    LET n == Len(x)
        tot == Cardinality(Pairs(n))
        xtie == Cardinality({p \in Pairs(n) : x[p[1]] = x[p[2]]})
        ytie == Cardinality({p \in Pairs(n) : y[p[1]] = y[p[2]]})
        con == Cardinality({p \in Pairs(n) :
                   (x[p[1]] - x[p[2]]) * (y[p[1]] - y[p[2]]) > 0})
        dis == Cardinality({p \in Pairs(n) :
                   (x[p[1]] - x[p[2]]) * (y[p[1]] - y[p[2]]) < 0})
    IN  IF xtie = tot \/ ytie = tot
        THEN NaN
        ELSE [nan |-> FALSE, s |-> con - dis, d |-> (tot - xtie) * (tot - ytie)]

IsStableAtLeast(corr_, prev_corr_) == ~PyGt(prev_corr_, corr_)
IsStableReversed(corr_, prev_corr_) == PyGt(prev_corr_, corr_)
\* get_rank_corr:  is_ranking_stable = corr > prev_corr_
IsRankingStable(corr_, prev_corr_) == PyGt(corr_, prev_corr_)

get_rank_corr_keeps_prev_loss(prev_corr_, prev_loss_, losses) ==
    LET c == kendalltau(losses, prev_loss_)
    IN  [is_ranking_stable |-> PyGt(c, prev_corr_),
         corr |-> c,
         losses |-> prev_loss_]
get_rank_corr_to_pool_order(prev_corr_, prev_loss_, losses) ==
    LET c == kendalltau(losses, [i \in 1..Len(losses) |-> i - 1])
    IN  [is_ranking_stable |-> PyGt(c, prev_corr_),
         corr |-> c,
         losses |-> losses]
\* get_rank_corr(prev_corr_, prev_loss_), given the losses its validation
\* passes measured, one per candidate in pool order
get_rank_corr(prev_corr_, prev_loss_, losses) ==
    LET c == kendalltau(losses, prev_loss_)
    IN  [is_ranking_stable |-> IsRankingStable(c, prev_corr_),
         corr |-> c,
         losses |-> losses]

CounterNeverReset(stable, counter) == IF stable THEN counter + 1 ELSE counter
\* main:  if is_ranking_stable: ranking_counter += 1  else: ranking_counter = 0
NextRankingCounter(stable, counter) == IF stable THEN counter + 1 ELSE 0

StopOnPatienceOnly(counter, patience, c, threshold) == counter > patience
StopAtPatience(counter, patience, c, threshold) ==
    counter >= patience \/ PyGt(c, threshold)
\* main:  ranking_counter > args.ranking_patience or corr > args.corr_threshold
StopCondition(counter, patience, c, threshold) ==
    counter > patience \/ PyGt(c, threshold)

LoopConditionIgnoringStop(stop, lr_, min_lr, epoch_, max_epoch, updates, max_update) ==
    /\ lr_ > min_lr
    /\ PyLt(epoch_, max_epoch)
    /\ PyLt(updates, max_update)
LoopConditionInclusive(stop, lr_, min_lr, epoch_, max_epoch, updates, max_update) ==
    /\ ~stop
    /\ lr_ >= min_lr
    /\ (max_epoch.inf \/ epoch_ <= max_epoch.v)
    /\ (max_update.inf \/ updates <= max_update.v)
\* main:  while not stop_training and lr > args.min_lr
\*              and epoch_itr.epoch < max_epoch
\*              and trainer.get_num_updates() < max_update
LoopCondition(stop, lr_, min_lr, epoch_, max_epoch, updates, max_update) ==
    /\ ~stop
    /\ lr_ > min_lr
    /\ PyLt(epoch_, max_epoch)
    /\ PyLt(updates, max_update)

-----------------------------------------------------------------------------
(* Architecture configurations and the search space *)

\* utils.get_all_choices(args): the candidate set of every searchable dimension
ChoiceSets == {[embed_dim |-> e, layer_num |-> l] :
                 e \in (SUBSET {1, 2}) \ {{}}, l \in (SUBSET {1, 2}) \ {{}}}

\* utils.sample_configs(choices, ...): one value per dimension, each drawn
\* from its candidate set; the set of configurations a call can return
sample_configs(choices) ==
    {[embed_dim |-> e, layer_num |-> l] :
        e \in choices.embed_dim, l \in choices.layer_num}

\* str(sample): the serialized form of a configuration
Str(sample) ==
    <<"{embed_dim: ", sample.embed_dim, ", layer_num: ", sample.layer_num, "}">>

\* the pools  sampled_archs  that main() builds out of the full search space
\* and that the model of the main loop starts from
ConfigSeq == <<[embed_dim |-> 1, layer_num |-> 1], [embed_dim |-> 1, layer_num |-> 2],
               [embed_dim |-> 2, layer_num |-> 1], [embed_dim |-> 2, layer_num |-> 2]>>
BuiltPools(n) == {[i \in 1..n |-> ConfigSeq[i]]}

-----------------------------------------------------------------------------
(* The main training loop of main() *)

\* validate(...)[0] of every candidate: the loss vectors of a rank check, in
\* hundredths.  Only the order of the losses enters the rank correlation, so
\* the vectors are those whose values are the dense ranks 0..k of the losses.
LossVectors(n) ==
    {v \in [1..n -> 0..(n - 1)] :
        \A x \in 0..(n - 1) : (\E i \in 1..n : v[i] > x) => (\E i \in 1..n : v[i] = x)}
Tasks == {"translation", "classification"}

\* the candidate pool sizes (args.rank_list_size) of the model
RankListSizes == {2, 3}

\* the command lines of the model: --max-epoch / --max-update 0 mean no limit,
\* --corr-threshold is -0.5 or the default 0.9
\* --validate-interval / --save-interval are 1 (the default) or 2
Intervals == {1, 2}
ArgsSet ==
    [task : Tasks,
     min_lr : {1},
     max_epoch : {0, 2},
     max_update : {0, 2},
     ranking_patience : {1, 2},
     corr_threshold : {Float(-5, 10), Float(9, 10)},
     rank_list_size : RankListSizes,
     disable_validation : {FALSE},
     validate_interval : {1},
     save_interval : {1}]
    \cup
    [task : Tasks,
     min_lr : {1},
     max_epoch : {0},
     max_update : {0},
     ranking_patience : {1},
     corr_threshold : {Float(9, 10)},
     rank_list_size : {2},
     disable_validation : BOOLEAN,
     validate_interval : Intervals,
     save_interval : Intervals]

\* main, lines 153-197: the state at the head of the main training loop
Init ==
    /\ pc = "loop_test"
    /\ args \in ArgsSet
    /\ lr \in 0..MaxLr
    /\ epoch = 0
    /\ num_updates = 0
    /\ stop_training = FALSE
    /\ ranking_counter = 0
    /\ is_ranking_stable = FALSE
    /\ corr = Float(-1, 1)
    /\ prev_loss = [i \in 1..args.rank_list_size |-> i - 1]
    /\ sampled_archs \in BuiltPools(args.rank_list_size)
    /\ hash_tables = [i \in 1..Len(sampled_archs) |-> Str(sampled_archs[i])]
    /\ stable_hist = <<>>
    /\ prev_corr_in = Float(-1, 1)
    /\ phases = <<>>
    /\ validated_archs = <<>>
    /\ conv = None
    /\ last_call = None
    /\ recomputed = FALSE
    /\ batch_i = 0
    /\ iterations_in_epoch = 0
    /\ log_output = None
    /\ configs = <<>>
    /\ active_config = <<>>
    /\ rng = 0
    /\ effects = None
    /\ step_log = {}
    /\ saved = {}
    /\ resumes = 0
    /\ train_step_calls = 0
    /\ epoch_log = <<>>

\* the while test of the main training loop
LoopTest ==
    /\ pc = "loop_test"
    /\ pc' = IF LoopCondition(stop_training, lr, args.min_lr, epoch,
                              OrInf(args.max_epoch), num_updates,
                              OrInf(args.max_update))
             THEN "train" ELSE "done"
    /\ UNCHANGED <<args, lr, epoch, num_updates, stop_training, ranking_counter,
                   is_ranking_stable, corr, prev_loss, stable_hist,
                   prev_corr_in, phases, validated_archs, poolVars,
                   convVars, trainVars>>

\* train(args, trainer, task, epoch_itr): next_epoch_itr advances the epoch;
\* every step that yields a loss advances the update count, and the step
\* loop breaks once the count reaches max_update
TrainEpoch ==
    /\ pc = "train"
    /\ epoch < MaxEpochRun
    /\ epoch' = epoch + 1
    /\ \E k \in 0..MaxBatch :
         /\ PyLt(num_updates + k - 1, OrInf(args.max_update)) \/ k = 0
         /\ num_updates' = num_updates + k
    /\ phases' = <<"TRAIN_EPOCH">>
    /\ pc' = "rank_check"
    /\ UNCHANGED <<args, lr, stop_training, ranking_counter, is_ranking_stable,
                   corr, prev_loss, stable_hist, prev_corr_in, validated_archs,
                   poolVars, convVars, trainVars>>

\* main, lines 206-214: the rank check and the update of ranking_counter
RankCheck ==
    /\ pc = "rank_check"
    /\ IF args.task # "classification"
       THEN \E losses \in LossVectors(Len(sampled_archs)) :
              LET r == get_rank_corr(corr, prev_loss, losses)
              IN  /\ is_ranking_stable' = r.is_ranking_stable
                  /\ corr' = r.corr
                  /\ prev_loss' = r.losses
                  /\ prev_corr_in' = corr
                  /\ validated_archs' = sampled_archs
       ELSE /\ is_ranking_stable' = FALSE
            /\ corr' = Float(0, 1)
            /\ validated_archs' = <<>>
            /\ UNCHANGED <<prev_loss, prev_corr_in>>
    /\ ranking_counter' = NextRankingCounter(is_ranking_stable', ranking_counter)
    /\ stable_hist' = Append(stable_hist, is_ranking_stable')
    /\ phases' = Append(phases, "RANK_CHECK")
    /\ pc' = "stop_check"
    /\ UNCHANGED <<args, lr, epoch, num_updates, stop_training, poolVars,
                   convVars, trainVars>>

\* main, lines 216-218
StopCheck ==
    /\ pc = "stop_check"
    /\ stop_training' =
         IF StopCondition(ranking_counter, args.ranking_patience, corr,
                          args.corr_threshold)
         THEN TRUE ELSE stop_training
    /\ pc' = "validate"
    /\ UNCHANGED <<args, lr, epoch, num_updates, ranking_counter,
                   is_ranking_stable, corr, prev_loss, stable_hist,
                   prev_corr_in, phases, validated_archs, poolVars,
                   convVars, trainVars>>

\* main:  if not args.disable_validation
\*               and epoch_itr.epoch % args.validate_interval == 0
ValidationDue(disable_validation, epoch_, validate_interval) ==
    ~disable_validation /\ epoch_ % validate_interval = 0

\* main:  if epoch_itr.epoch % args.save_interval == 0
CheckpointDue(epoch_, save_interval) == epoch_ % save_interval = 0

\* main, lines 220-226: validation of the representative configurations
Validate ==
    /\ pc = "validate"
    /\ phases' = IF ValidationDue(args.disable_validation, epoch,
                                  args.validate_interval)
                 THEN Append(phases, "VALIDATE_REPRESENTATIVE_SET")
                 ELSE phases
    /\ pc' = "checkpoint"
    /\ UNCHANGED <<args, lr, epoch, num_updates, stop_training, ranking_counter,
                   is_ranking_stable, corr, prev_loss, stable_hist,
                   prev_corr_in, validated_archs, poolVars, convVars, trainVars>>

\* main, lines 228-231: the epoch-level checkpoint
Checkpoint ==
    /\ pc = "checkpoint"
    /\ phases' = IF CheckpointDue(epoch, args.save_interval)
                 THEN Append(phases, "CHECKPOINT")
                 ELSE phases
    /\ pc' = "lr_step"
    /\ UNCHANGED <<args, lr, epoch, num_updates, stop_training, ranking_counter,
                   is_ranking_stable, corr, prev_loss, stable_hist,
                   prev_corr_in, validated_archs, poolVars, convVars, trainVars>>

\* main, line 234:  lr = trainer.lr_step(epoch_itr.epoch, valid_losses[0])
LrStep ==
    /\ pc = "lr_step"
    /\ lr' \in 0..MaxLr
    /\ phases' = Append(phases, "LR_STEP")
    /\ pc' = "loop_test"
    /\ UNCHANGED <<args, epoch, num_updates, stop_training, ranking_counter,
                   is_ranking_stable, corr, prev_loss, stable_hist,
                   prev_corr_in, validated_archs, poolVars, convVars, trainVars>>

Next ==
    \/ LoopTest
    \/ TrainEpoch
    \/ RankCheck
    \/ StopCheck
    \/ Validate
    \/ Checkpoint
    \/ LrStep

Spec == Init /\ [][Next]_vars

-----------------------------------------------------------------------------
(* Properties of the main training loop, checked under Spec *)

AfterStopCheck == pc \in {"validate", "checkpoint", "lr_step"}

\* C1: at every epoch's rank check, training is marked to stop if and only
\* if ranking_counter (as updated for this epoch) exceeds ranking_patience
\* or this epoch's tau exceeds corr_threshold.
C1_StopIffPatienceOrThreshold ==
    AfterStopCheck =>
        (stop_training <=>
            (\/ ranking_counter > args.ranking_patience
             \/ PyGt(corr, args.corr_threshold)))

\* C1 witness: an epoch after the first whose rank check stops the training
\* through the threshold alone, the counter being within the patience.
C1_Witness ==
    /\ pc = "validate"
    /\ epoch >= 2
    /\ stop_training
    /\ ranking_counter <= args.ranking_patience
    /\ args.task = "translation"

\* C2, as claimed: with pool size 3 and ranking_patience 2, once two
\* consecutive improving epochs have brought ranking_counter to 2 the
\* training is stopped at that epoch boundary and no third epoch starts.
C2_HaltsAtCounterTwo ==
    (/\ args.rank_list_size = 3
     /\ args.ranking_patience = 2
     /\ ranking_counter = 2
     /\ stable_hist = <<TRUE, TRUE>>)
        => /\ AfterStopCheck => stop_training
           /\ pc # "train"

\* C2, amended: with pool size 3 and ranking_patience 2, a ranking_counter of
\* 2 does not exceed the patience: unless tau exceeds corr_threshold the rank
\* check leaves stop_training false (so a further epoch is trained when the
\* lr, epoch and update limits allow); the stop for stability comes with the
\* third consecutive improving epoch, when ranking_counter is 3.
C2_HaltsAboveCounterTwo ==
    (/\ args.rank_list_size = 3
     /\ args.ranking_patience = 2
     /\ AfterStopCheck)
        => /\ (ranking_counter = 2 /\ ~PyGt(corr, args.corr_threshold))
                => ~stop_training
           /\ ranking_counter = 3 => stop_training

\* C2 witness: after two improving epochs (counter 2, patience 2, both taus
\* within the threshold) the third epoch is about to be trained.
C2_Witness ==
    /\ args.rank_list_size = 3
    /\ args.ranking_patience = 2
    /\ stable_hist = <<TRUE, TRUE>>
    /\ ranking_counter = 2
    /\ ~PyGt(corr, args.corr_threshold)
    /\ epoch = 2
    /\ pc = "train"

\* the loop limits as the spec words them: lr below the floor, epoch count
\* and update count above their maxima
ExitStrict ==
    \/ stop_training
    \/ lr < args.min_lr
    \/ (args.max_epoch # 0 /\ epoch > args.max_epoch)
    \/ (args.max_update # 0 /\ num_updates > args.max_update)

\* the loop limits with their boundary values included
ExitInclusive ==
    \/ stop_training
    \/ lr <= args.min_lr
    \/ (args.max_epoch # 0 /\ epoch >= args.max_epoch)
    \/ (args.max_update # 0 /\ num_updates >= args.max_update)

\* C3, as claimed: the loop is left exactly when the lr is below min_lr, the
\* epoch count exceeds max_epoch, the update count exceeds max_update or the
\* monitor has reported a stable ranking; otherwise another epoch is trained.
C3_ExitWhenLimitExceeded ==
    /\ pc = "done" => ExitStrict
    /\ pc = "train" => ~ExitStrict

\* C3, amended: the loop is left exactly when, at an epoch boundary, the lr
\* is at or below min_lr, the epoch count has reached max_epoch, the update
\* count has reached max_update (a maximum of 0 meaning no limit) or the
\* monitor has reported a stable ranking; otherwise another epoch is trained.
C3_ExitWhenLimitReached ==
    /\ pc = "done" => ExitInclusive
    /\ pc = "train" => ~ExitInclusive

\* C3 witness: the loop is left because the epoch count has reached
\* max_epoch, nothing else asking for it.
C3_Witness ==
    /\ pc = "done"
    /\ ~stop_training
    /\ lr > args.min_lr
    /\ epoch = args.max_epoch
    /\ (args.max_update = 0 \/ num_updates < args.max_update)

\* the number of consecutive stable epochs at the end of a history
RECURSIVE TrailingStable(_)
TrailingStable(h) ==
    IF h = <<>> \/ ~h[Len(h)]
    THEN 0
    ELSE 1 + TrailingStable(SubSeq(h, 1, Len(h) - 1))

\* C4: ranking_counter is incremented by a stable epoch and reset to zero by
\* any other, so that in every reachable state it equals the number of
\* consecutive stable epochs ending at the latest epoch.
C4_CounterIsStableRun == ranking_counter = TrailingStable(stable_hist)

\* C4 witness: a stable epoch, an unstable one that reset the counter, and a
\* stable one that counted again.
C4_Witness ==
    /\ stable_hist = <<TRUE, FALSE, TRUE>>
    /\ ranking_counter = 1

C6_CorrelationNeverNaN == ~corr.nan /\ ~prev_corr_in.nan

-----------------------------------------------------------------------------
(* Further properties of the rank check, checked under Spec *)

IsOne(f) == ~f.nan /\ f.s > 0 /\ f.s * f.s = f.d
IsMinusOne(f) == ~f.nan /\ f.s < 0 /\ f.s * f.s = f.d
Distinct(x) == \A p \in Pairs(Len(x)) : x[p[1]] # x[p[2]]
\* y ranks every pair of candidates the other way round than x does
ReverseOrder(x, y) ==
    \A p \in Pairs(Len(x)) : (x[p[1]] - x[p[2]]) * (y[p[1]] - y[p[2]]) < 0

\* C15: a rank check that measures the same loss vector as the rank check
\* before it, its entries distinct, computes tau = 1; and with a
\* corr_threshold of 0.9 the stop check that follows a tau of 1 marks the
\* training to stop, whatever ranking_counter and ranking_patience are.
C15_IdenticalLossesStop ==
    /\ [][(/\ pc = "rank_check"
           /\ args.task # "classification"
           /\ prev_loss' = prev_loss
           /\ Distinct(prev_loss))
              => IsOne(corr')]_vars
    /\ [][(/\ pc = "stop_check"
           /\ IsOne(corr)
           /\ args.corr_threshold = Float(9, 10))
              => stop_training']_vars
    /\ []((/\ AfterStopCheck
           /\ IsOne(corr)
           /\ args.corr_threshold = Float(9, 10))
              => stop_training)

\* C15 witness: the second epoch's rank check has measured the losses of the
\* first once more (tau is 1 only then), the threshold is 0.9, and the
\* training is stopped although the counter is within the patience.
C15_Witness ==
    /\ pc = "validate"
    /\ epoch = 2
    /\ args.task # "classification"
    /\ Distinct(prev_loss)
    /\ IsOne(corr)
    /\ args.corr_threshold = Float(9, 10)
    /\ ranking_counter <= args.ranking_patience
    /\ stop_training

\* C16: a rank check whose losses rank the candidates in exactly the reverse
\* order of the previous loss vector (as [0.5, 0.4, 0.3] then
\* [0.3, 0.4, 0.5]) computes tau = -1 and finds the ranking not stable,
\* whatever the previous correlation is.
C16_ReversedRankingUnstable ==
    [][(/\ pc = "rank_check"
        /\ args.task # "classification"
        /\ ReverseOrder(prev_loss, prev_loss'))
           => /\ IsMinusOne(corr')
              /\ ~is_ranking_stable'
              /\ ranking_counter' = 0]_vars

\* C16 witness: after an epoch with a tau above -1, the pool of three was
\* measured as [0.5, 0.4, 0.3] and then as [0.3, 0.4, 0.5]: tau is -1 and
\* the ranking is not stable.
C16_Witness ==
    /\ pc = "stop_check"
    /\ args.task # "classification"
    /\ args.rank_list_size = 3
    /\ epoch = 3
    /\ prev_loss = <<0, 1, 2>>
    /\ IsMinusOne(corr)
    /\ PyGt(prev_corr_in, Float(-1, 1))
    /\ ~is_ranking_stable

-----------------------------------------------------------------------------
(* The phases of an epoch, checked under Spec *)

\* the phases of one pass through the main loop: train() (line 203), the
\* rank check with the stop decision (lines 205-218), the validation of the
\* representative configurations (lines 220-226), the epoch-level
\* checkpoint (lines 228-231) and trainer.lr_step (line 234)
PhaseOrder == <<"TRAIN_EPOCH", "RANK_CHECK", "VALIDATE_REPRESENTATIVE_SET",
                "CHECKPOINT", "LR_STEP">>
PhaseIndex(ph) == CHOOSE i \in DOMAIN PhaseOrder : PhaseOrder[i] = ph
InPhaseOrder(seq) ==
    \A i, j \in DOMAIN seq : i < j => PhaseIndex(seq[i]) < PhaseIndex(seq[j])

C18_EveryEpochRanksPool ==
    pc = "stop_check" => validated_archs = sampled_archs

\* C18, amended: the ranking state is mutated once per epoch, in the
\* rank-check phase and by no other driver action, and the pool never
\* changes.  Unless the task is classification, the rank check validates
\* every pool candidate in pool order, the vector of their N losses becomes
\* prev_loss, and tau is computed against the vector, and compared with the
\* tau, of the rank check before.  For the classification task no rank
\* check runs: corr is set to 0, ranking_counter to 0, and prev_loss stays.
C18_RankingStateOncePerEpoch ==
    /\ [](Len(stable_hist) = IF pc = "rank_check" THEN epoch - 1 ELSE epoch)
    /\ [][(pc = "rank_check" /\ args.task # "classification")
            => /\ validated_archs' = sampled_archs
               /\ DOMAIN prev_loss' = DOMAIN sampled_archs
               /\ corr' = kendalltau(prev_loss', prev_loss)
               /\ is_ranking_stable' <=> PyGt(corr', corr)]_vars
    /\ [][(pc = "rank_check" /\ args.task = "classification")
            => /\ validated_archs' = <<>>
               /\ prev_loss' = prev_loss
               /\ corr' = Float(0, 1)
               /\ ranking_counter' = 0]_vars
    /\ [][pc # "rank_check"
            => UNCHANGED <<prev_loss, corr, ranking_counter>>]_vars
    /\ [][UNCHANGED <<sampled_archs, hash_tables>>]_vars

\* C18 witness: the second epoch's rank check has validated the three
\* candidates of the pool and stored a loss vector other than the baseline
\* and a tau other than the initial -1.
C18_Witness ==
    /\ pc = "stop_check"
    /\ epoch = 2
    /\ args.task # "classification"
    /\ Len(sampled_archs) = 3
    /\ validated_archs = sampled_archs
    /\ prev_loss = <<1, 0, 1>>
    /\ ~corr.nan
    /\ ~IsMinusOne(corr)

-----------------------------------------------------------------------------
(* Candidate-pool construction: main(), lines 164-177 *)

AlwaysNew(sample, table) == TRUE
\* main:  str(sample) not in hash_tables
NotInHashTables(sample, table) == Str(sample) \notin Range(table)

PoolArgsSet == [rank_list_size : RankListSizes, choices : ChoiceSets]

\* main, lines 164-165: the empty pool
InitPool ==
    /\ pc = "build_pool"
    /\ args \in PoolArgsSet
    /\ sampled_archs = <<>>
    /\ hash_tables = <<>>
    /\ lr = 0
    /\ epoch = 0
    /\ num_updates = 0
    /\ stop_training = FALSE
    /\ ranking_counter = 0
    /\ is_ranking_stable = FALSE
    /\ corr = NaN
    /\ prev_loss = <<>>
    /\ stable_hist = <<>>
    /\ prev_corr_in = NaN
    /\ phases = <<>>
    /\ validated_archs = <<>>
    /\ conv = None
    /\ last_call = None
    /\ recomputed = FALSE
    /\ batch_i = 0
    /\ iterations_in_epoch = 0
    /\ log_output = None
    /\ configs = <<>>
    /\ active_config = <<>>
    /\ rng = 0
    /\ effects = None
    /\ step_log = {}
    /\ saved = {}
    /\ resumes = 0
    /\ train_step_calls = 0
    /\ epoch_log = <<>>

\* main, lines 167-175: one iteration of the while loop; a sample whose
\* string is in hash_tables already is dropped, which leaves the state as
\* it was
SamplePool ==
    /\ pc = "build_pool"
    /\ Len(sampled_archs) < args.rank_list_size
    /\ \E sample \in sample_configs(args.choices) :
         IF NotInHashTables(sample, hash_tables)
         THEN /\ sampled_archs' = Append(sampled_archs, sample)
              /\ hash_tables' = Append(hash_tables, Str(sample))
         ELSE UNCHANGED <<sampled_archs, hash_tables>>
    /\ UNCHANGED <<pc, args, lr, epoch, num_updates, stop_training,
                   ranking_counter, is_ranking_stable, corr, prev_loss,
                   stable_hist, prev_corr_in, phases, validated_archs,
                   convVars, trainVars>>

\* main, lines 167 and 176-177: the while test fails, the baseline loss
\* vector and correlation are set
PoolBuilt ==
    /\ pc = "build_pool"
    /\ ~(Len(sampled_archs) < args.rank_list_size)
    /\ prev_loss' = [i \in 1..args.rank_list_size |-> i - 1]
    /\ corr' = Float(-1, 1)
    /\ pc' = "pool_built"
    /\ UNCHANGED <<args, lr, epoch, num_updates, stop_training,
                   ranking_counter, is_ranking_stable, stable_hist,
                   prev_corr_in, phases, validated_archs, poolVars,
                   convVars, trainVars>>

NextPool ==
    \/ SamplePool
    \/ PoolBuilt

\* The loop keeps iterating, and the sampler draws every dimension uniformly
\* at random: of the configurations not yet in the pool one is drawn
\* eventually, which is the weak fairness of the state-changing steps.
SpecPool == InitPool /\ [][NextPool]_vars /\ WF_vars(NextPool)

\* the serialized forms of the search space
SerializedSpace == {Str(c) : c \in sample_configs(args.choices)}

PoolIsDistinct ==
    \A i, j \in 1..Len(sampled_archs) :
        i # j => Str(sampled_archs[i]) # Str(sampled_archs[j])

\* C7: over a search space with at least P distinct serialized
\* configurations the construction of a pool of size P terminates, and the
\* pool then holds exactly P configurations with pairwise distinct strings.
C7_PoolBuiltDistinct ==
    /\ [](pc = "pool_built" =>
            /\ Len(sampled_archs) = args.rank_list_size
            /\ PoolIsDistinct)
    /\ (pc = "build_pool" /\ Cardinality(SerializedSpace) >= args.rank_list_size)
          ~> (pc = "pool_built")

\* C7 witness: a pool of three built out of a space of four configurations.
C7_Witness ==
    /\ pc = "pool_built"
    /\ args.rank_list_size = 3
    /\ Cardinality(SerializedSpace) = 4
    /\ Len(sampled_archs) = 3
    /\ PoolIsDistinct

\* C8, as claimed: the construction bounds its resampling: it is never in
\* the loop, short of P candidates, with every configuration of the search
\* space in the pool already (where every further sample is dropped and the
\* loop cannot end); it has ended with an error before.
C8_ResamplingBounded ==
    (pc = "build_pool" /\ Len(sampled_archs) < args.rank_list_size)
        => \E sample \in sample_configs(args.choices) :
              Str(sample) \notin Range(hash_tables)

-----------------------------------------------------------------------------
(* Conv2dSuper: fairseq/modules/conv_super.py *)

\* an int or None, and a tensor or None
NoDim == [is_none |-> TRUE, v |-> 0]
Dim(n) == [is_none |-> FALSE, v |-> n]
NoTensor == [is_none |-> TRUE, v |-> <<>>]
Tensor(t) == [is_none |-> FALSE, v |-> t]

\* the empty dict
EmptyDict == [k \in {} |-> NoTensor]

\* Python's and torch's  seq[:k]  along the first axis: all of seq when k is
\* None, its first k entries when k >= 0 (all of them when k exceeds the
\* length), all but its last -k entries when k < 0
PySlice(seq, k) ==
    IF k.is_none THEN seq
    ELSE IF k.v >= 0 THEN SubSeq(seq, 1, Min(k.v, Len(seq)))
    ELSE SubSeq(seq, 1, Max(Len(seq) + k.v, 0))

\* nn.Conv2d's weight of shape (out, in, k, k) and bias of shape (out): an
\* element is named by its index in the maximal tensor, so that a slice, a
\* view of the maximal tensor, tells which elements it holds
MaximalWeight(out_dim, in_dim, k) ==
    [o \in 1..out_dim |-> [i \in 1..in_dim |->
        [h \in 1..k |-> [w \in 1..k |-> <<o, i, h, w>>]]]]
MaximalBias(out_dim) == [o \in 1..out_dim |-> <<o>>]

sample_weight_swapped(weight, sample_in_dim, sample_out_dim) ==
    PySlice([o \in 1..Len(weight) |-> PySlice(weight[o], sample_out_dim)],
            sample_in_dim)
\* sample_weight:  weight[:, :sample_in_dim, :, :]  then  [:sample_out_dim, :, :, :]
sample_weight(weight, sample_in_dim, sample_out_dim) ==
    PySlice([o \in 1..Len(weight) |-> PySlice(weight[o], sample_in_dim)],
            sample_out_dim)

\* sample_bias:  bias[:sample_out_dim]
sample_bias(bias, sample_out_dim) == PySlice(bias, sample_out_dim)

\* Conv2dSuper._sample_parameters: the new self.samples
SampledParameters(c) ==
    [weight |-> Tensor(sample_weight(c.weight.v, c.sample_in_dim, c.sample_out_dim)),
     bias |-> IF ~c.bias.is_none
              THEN Tensor(sample_bias(c.bias.v, c.sample_out_dim))
              ELSE c.bias]

\* torch.Tensor.numel() of a weight slice and of a bias slice
WeightNumel(w) ==
    IF Len(w) = 0 THEN 0
    ELSE IF Len(w[1]) = 0 THEN 0
    ELSE Len(w) * Len(w[1]) * Len(w[1][1]) * Len(w[1][1][1])
BiasNumel(b) == Len(b)

\* the outcome of a call: the exception it raised, if any, and its value
Returned(val) == [err |-> "", val |-> val]
Raised(err) == [err |-> err, val |-> 0]
Call(op, a, b, ret) == [op |-> op, a |-> a, b |-> b, ret |-> ret]

\* the arguments tried for set_sample_config: in range, zero, negative and
\* beyond the maximal extent
DimArgs == (0 - 1)..(MaxSuperDim + 1)

\* Conv2dSuper.__init__:  nn.Conv2d.__init__ is called with bias=True
\* whatever the bias argument is
InitConv ==
    /\ \E super_in_dim \in 1..MaxSuperDim, super_out_dim \in 1..MaxSuperDim,
          kernel_size \in 1..MaxKernel, bias \in BOOLEAN :
         conv = [super_in_dim |-> super_in_dim,
                 super_out_dim |-> super_out_dim,
                 kernel_size |-> kernel_size,
                 bias_arg |-> bias,
                 weight |-> Tensor(MaximalWeight(super_out_dim, super_in_dim,
                                                 kernel_size)),
                 bias |-> Tensor(MaximalBias(super_out_dim)),
                 sample_in_dim |-> NoDim,
                 sample_out_dim |-> NoDim,
                 samples |-> EmptyDict,
                 profiling |-> FALSE]
    /\ last_call = Call("__init__", 0, 0, Returned(0))
    /\ recomputed = FALSE
    /\ batch_i = 0
    /\ iterations_in_epoch = 0
    /\ log_output = None
    /\ configs = <<>>
    /\ active_config = <<>>
    /\ rng = 0
    /\ effects = None
    /\ step_log = {}
    /\ saved = {}
    /\ resumes = 0
    /\ train_step_calls = 0
    /\ epoch_log = <<>>
    /\ pc = "conv"
    /\ args = None
    /\ sampled_archs = <<>>
    /\ hash_tables = <<>>
    /\ lr = 0
    /\ epoch = 0
    /\ num_updates = 0
    /\ stop_training = FALSE
    /\ ranking_counter = 0
    /\ is_ranking_stable = FALSE
    /\ corr = NaN
    /\ prev_loss = <<>>
    /\ stable_hist = <<>>
    /\ prev_corr_in = NaN
    /\ phases = <<>>
    /\ validated_archs = <<>>

\* Conv2dSuper.profile(mode)
Profile(mode) ==
    /\ pc = "conv"
    /\ conv' = [conv EXCEPT !.profiling = mode]
    /\ last_call' = Call("profile", IF mode THEN 1 ELSE 0, 0, Returned(0))
    /\ recomputed' = FALSE
    /\ UNCHANGED <<driverVars, args, poolVars, trainVars>>

\* Conv2dSuper.set_sample_config(sample_in_dim, sample_out_dim)
SetSampleConfig(sample_in_dim, sample_out_dim) ==
    /\ pc = "conv"
    /\ LET stored == [conv EXCEPT !.sample_in_dim = Dim(sample_in_dim),
                                  !.sample_out_dim = Dim(sample_out_dim)]
       IN  conv' = [stored EXCEPT !.samples = SampledParameters(stored)]
    /\ last_call' = Call("set_sample_config", sample_in_dim, sample_out_dim,
                         Returned(0))
    /\ recomputed' = TRUE
    /\ UNCHANGED <<driverVars, args, poolVars, trainVars>>

RecomputeOnResampleOnly(profiling, resample) == resample
RecomputeAlways(profiling, resample) == TRUE
\* Conv2dSuper.sample_parameters:  if self.profiling or resample
ShouldRecompute(profiling, resample) == profiling \/ resample

\* Conv2dSuper.sample_parameters(resample)
SampleParameters(resample) ==
    /\ pc = "conv"
    /\ conv' = IF ShouldRecompute(conv.profiling, resample)
               THEN [conv EXCEPT !.samples = SampledParameters(conv)]
               ELSE conv
    /\ recomputed' = ShouldRecompute(conv.profiling, resample)
    /\ last_call' = Call("sample_parameters", IF resample THEN 1 ELSE 0, 0,
                         Returned(0))
    /\ UNCHANGED <<driverVars, args, poolVars, trainVars>>

\* F.conv2d(x, weight, bias) for an x of in_channels channels: the outcomes
\* it can have.  The value is the number of channels of the output; a weight
\* whose input channels differ from those of x is an error, and a weight
\* without output channels is an error or gives an output without channels,
\* depending on the torch build.
conv2d(in_channels, weight) ==
    IF Len(weight) = 0 THEN {Raised("RuntimeError"), Returned(0)}
    ELSE IF Len(weight[1]) # in_channels THEN {Raised("RuntimeError")}
    ELSE {Returned(Len(weight))}

\* Conv2dSuper.forward(x), x having in_channels channels: sample_parameters(),
\* then F.conv2d with the cached weight and bias
Forward(in_channels) ==
    /\ pc = "conv"
    /\ LET after == IF ShouldRecompute(conv.profiling, FALSE)
                    THEN [conv EXCEPT !.samples = SampledParameters(conv)]
                    ELSE conv
       IN  /\ conv' = after
           /\ recomputed' = ShouldRecompute(conv.profiling, FALSE)
           /\ \E ret \in IF "weight" \notin DOMAIN after.samples
                          THEN {Raised("KeyError")}
                          ELSE conv2d(in_channels, after.samples["weight"].v) :
                 last_call' = Call("forward", in_channels, 0, ret)
    /\ UNCHANGED <<driverVars, args, poolVars, trainVars>>

\* Conv2dSuper.calc_sampled_param_num()
CalcSampledParamNum ==
    /\ pc = "conv"
    /\ last_call' =
         Call("calc_sampled_param_num", 0, 0,
              IF "weight" \notin DOMAIN conv.samples
              THEN Raised("AssertionError")
              ELSE Returned(WeightNumel(conv.samples["weight"].v)
                            + (IF ~conv.samples["bias"].is_none
                               THEN BiasNumel(conv.samples["bias"].v)
                               ELSE 0)))
    /\ recomputed' = FALSE
    /\ UNCHANGED <<conv, driverVars, args, poolVars, trainVars>>

NextConv ==
    \/ \E mode \in BOOLEAN : Profile(mode)
    \/ \E sample_in_dim \in DimArgs, sample_out_dim \in DimArgs :
         SetSampleConfig(sample_in_dim, sample_out_dim)
    \/ \E resample \in BOOLEAN : SampleParameters(resample)
    \/ \E in_channels \in 1..MaxSuperDim : Forward(in_channels)
    \/ CalcSampledParamNum

SpecConv == InitConv /\ [][NextConv]_vars

-----------------------------------------------------------------------------
(* Properties of Conv2dSuper, checked under SpecConv *)

\* C9, as claimed: set_sample_config with a dimension outside
\* 1..super_in_dim or 1..super_out_dim fails with a configuration error; the
\* dims it stores are in range, and the slice it caches has the extent that
\* was asked for, not a truncated or wrapped one.
C9_OutOfRangeDimsRejected ==
    /\ (/\ last_call.op = "set_sample_config"
        /\ \/ last_call.a \notin 1..conv.super_in_dim
           \/ last_call.b \notin 1..conv.super_out_dim)
          => last_call.ret.err # ""
    /\ ~conv.sample_in_dim.is_none
          => conv.sample_in_dim.v \in 1..conv.super_in_dim
    /\ ~conv.sample_out_dim.is_none
          => conv.sample_out_dim.v \in 1..conv.super_out_dim
    /\ last_call.op = "set_sample_config"
          => /\ Len(conv.samples["weight"].v) = last_call.b
             /\ \A o \in 1..Len(conv.samples["weight"].v) :
                   Len(conv.samples["weight"].v[o]) = last_call.a

\* C10: for every in_dim in 0..super_in_dim and out_dim in 0..super_out_dim,
\* after set_sample_config(in_dim, out_dim) the cached weight is the prefix
\* [0:out_dim, 0:in_dim, ...] of the maximal weight, element for element,
\* and the cached bias is the prefix [0:out_dim] of the maximal bias.
C10_SliceIsPrefix ==
    (/\ last_call.op = "set_sample_config"
     /\ last_call.a \in 0..conv.super_in_dim
     /\ last_call.b \in 0..conv.super_out_dim)
        => /\ DOMAIN conv.samples = {"weight", "bias"}
           /\ conv.samples["weight"].v =
                [o \in 1..last_call.b |->
                    [i \in 1..last_call.a |-> conv.weight.v[o][i]]]
           /\ \A o \in 1..last_call.b, i \in 1..last_call.a :
                 \A h, w \in 1..conv.kernel_size :
                    conv.samples["weight"].v[o][i][h][w] = <<o, i, h, w>>
           /\ conv.samples["bias"].v = [o \in 1..last_call.b |-> conv.bias.v[o]]

\* C10 witness: a 2 x 1 slice of a maximal weight of more than one input
\* channel has just been cached.
C10_Witness ==
    /\ last_call.op = "set_sample_config"
    /\ last_call.a = 1
    /\ last_call.b = 2
    /\ conv.super_in_dim >= 2
    /\ conv.super_out_dim >= 2
    /\ Len(conv.samples["weight"].v) = 2
    /\ Len(conv.samples["weight"].v[1]) = 1

\* C11, as claimed: for a valid activated configuration (in_dim, out_dim),
\* calc_sampled_param_num() returns out_dim * in_dim * kernel_elems, plus
\* out_dim if the module was constructed with a bias and plus 0 if it was
\* constructed without one.
C11_ParamNumCountsBiasIfConstructed ==
    (/\ last_call.op = "calc_sampled_param_num"
     /\ ~conv.sample_in_dim.is_none
     /\ conv.sample_in_dim.v \in 1..conv.super_in_dim
     /\ conv.sample_out_dim.v \in 1..conv.super_out_dim)
        => last_call.ret =
             Returned(conv.sample_out_dim.v * conv.sample_in_dim.v
                        * conv.kernel_size * conv.kernel_size
                      + (IF conv.bias_arg THEN conv.sample_out_dim.v ELSE 0))

\* C12, as claimed: as long as no set_sample_config call has been made,
\* whatever profile, sample_parameters and forward calls were made,
\* calc_sampled_param_num() fails; it returns no count.
C12_ParamNumFailsBeforeConfig ==
    (/\ last_call.op = "calc_sampled_param_num"
     /\ conv.sample_in_dim.is_none
     /\ conv.sample_out_dim.is_none)
        => last_call.ret.err # ""

\* C19: sample_parameters(resample) recomputes the slice from the stored
\* sample dims if and only if resample is true or the module is profiling,
\* and otherwise leaves the cached slice as it is; so forward recomputes the
\* slice on every call while profiling is on, and otherwise uses the slice
\* that is cached.
C19_RecomputeIffResampleOrProfiling ==
    /\ [](last_call.op = "sample_parameters"
            => (recomputed <=> (last_call.a = 1 \/ conv.profiling)))
    /\ [](last_call.op = "forward" => (recomputed <=> conv.profiling))
    /\ [][last_call'.op \in {"sample_parameters", "forward"}
            => /\ recomputed' =>
                    /\ conv'.samples["weight"].v =
                         sample_weight(conv.weight.v, conv.sample_in_dim,
                                       conv.sample_out_dim)
                    /\ conv'.samples["bias"].v =
                         sample_bias(conv.bias.v, conv.sample_out_dim)
               /\ ~recomputed' => conv'.samples = conv.samples
               /\ (last_call'.op = "forward" /\ last_call'.ret.err = "")
                    => last_call'.ret.val = Len(conv'.samples["weight"].v)]_vars

\* C19 witness: a forward call in profiling mode has recomputed the slice,
\* which shows because no configuration was set and nothing was cached.
C19_Witness ==
    /\ last_call.op = "forward"
    /\ conv.profiling
    /\ recomputed
    /\ conv.sample_in_dim.is_none
    /\ "weight" \in DOMAIN conv.samples

-----------------------------------------------------------------------------
(* The training steps: train(), lines 240-333, with what main() does to   *)
(* the trainer between two epochs and at a restart from a checkpoint      *)

MaxTrainEpochs == 2    \* epochs trained in one behaviour at most
MaxRng == 3            \* the generator states are 0..MaxRng

RngStates == 0..MaxRng

\* random.seed(n): the generator state that the seed n determines
Seed(n) == n % (MaxRng + 1)

\* random.choice(S) in generator state r
Pick(S, r) ==
    CHOOSE x \in S : Cardinality({y \in S : y < x}) = r % Cardinality(S)

\* utils.sample_configs(choices, reset_rand_seed, rand_seed) called in
\* generator state rng_: seeds the generator when asked to, then draws one
\* value per dimension; the configuration and the generator state it leaves
sample_configs_with_seed(choices, reset_rand_seed, rand_seed, rng_) ==
    LET st == IF reset_rand_seed THEN Seed(rand_seed) ELSE rng_
    IN  [config |-> [embed_dim |-> Pick(choices.embed_dim, st),
                     layer_num |-> Pick(choices.layer_num, st \div 2)],
         rng |-> (st + 2) % (MaxRng + 1)]

\* utils.get_subtransformer_config(args)
get_subtransformer_config(a) == a.subtransformer_config

\* utils.get_represent_configs(args): the largest and the smallest
\* configuration of the search space
get_represent_configs(a) ==
    <<[embed_dim |-> Pick(a.choices.embed_dim, Cardinality(a.choices.embed_dim) - 1),
       layer_num |-> Pick(a.choices.layer_num, Cardinality(a.choices.layer_num) - 1)],
      [embed_dim |-> Pick(a.choices.embed_dim, 0),
       layer_num |-> Pick(a.choices.layer_num, 0)]>>

\* trainer.train_step(samples, configs) at the update count updates: no
\* usable loss (None, the count stays) or the statistics of an update
train_step(updates) ==
    {[log_output |-> None, num_updates |-> updates],
     [log_output |-> "stats", num_updates |-> updates + 1]}

TrainStepConfigsUnseeded(a, updates, rng_) ==
    IF a.train_subtransformer
    THEN [config |-> get_subtransformer_config(a), rng |-> rng_]
    ELSE sample_configs_with_seed(a.choices, FALSE, updates, rng_)
TrainStepConfigsAlwaysSampled(a, updates, rng_) ==
    sample_configs_with_seed(a.choices, TRUE, updates, rng_)
\* train, lines 264-280: configs[0] of a step that starts at the update
\* count updates in generator state rng_ (the branches of the three tasks
\* make the same call), and the generator state afterwards
TrainStepConfigs(a, updates, rng_) ==
    IF a.train_subtransformer
    THEN [config |-> get_subtransformer_config(a), rng |-> rng_]
    ELSE sample_configs_with_seed(a.choices, TRUE, updates, rng_)

NeverSkip(log_output_) == FALSE
\* train:  if log_output is None: continue
SkipStep(log_output_) == log_output_ = None

PeriodicValidationEveryUpdate(disable_validation, save_interval_updates, updates) ==
    /\ ~disable_validation
    /\ save_interval_updates > 0
    /\ updates > 0
\* train, lines 304-309
PeriodicValidationDue(disable_validation, save_interval_updates, updates) ==
    /\ ~disable_validation
    /\ save_interval_updates > 0
    /\ updates % save_interval_updates = 0
    /\ updates > 0

\* train:  if num_updates >= max_update or i == (args.max_batch - 1): break
BreakDue(updates, max_update, i_, max_batch) ==
    ~PyLt(updates, max_update) \/ i_ = max_batch - 1

TrainTasks == {"translation", "language_modeling", "classification"}

\* the numbers of batches that the iterator of an epoch yields
EpochBatches == {2}

\* the command lines of the model of train(): every mode and task with the
\* default limits, and the supernet mode with --max-update 0 (no limit) or
\* 2, --max-batch 1 or the default 9000, --save-interval-updates 0
\* (never) or 2, with and without --disable-validation
TrainArgsSet ==
    [train_subtransformer : BOOLEAN,
     task : TrainTasks,
     choices : {[embed_dim |-> {1, 2}, layer_num |-> {1, 2}]},
     subtransformer_config : {ConfigSeq[2]},
     min_lr : {0},
     max_epoch : {0},
     max_update : {0},
     max_batch : {9000},
     save_interval_updates : {1},
     disable_validation : {FALSE},
     validate_interval : {1},
     save_interval : {1},
     rank_list_size : {2},
     batches : EpochBatches]
    \cup
    [train_subtransformer : {FALSE},
     task : {"translation"},
     choices : {[embed_dim |-> {1, 2}, layer_num |-> {1, 2}]},
     subtransformer_config : {ConfigSeq[2]},
     min_lr : {0},
     max_epoch : {0},
     max_update : {0, 2},
     max_batch : {1, 9000},
     save_interval_updates : {0, 2},
     disable_validation : BOOLEAN,
     validate_interval : {1},
     save_interval : {1},
     rank_list_size : {2},
     batches : EpochBatches]

\* the variables of main's loop that train() and the trainer do not touch
rankVars == <<lr, stop_training, ranking_counter, is_ranking_stable, corr,
              prev_loss, stable_hist, prev_corr_in, phases, validated_archs>>

\* main, lines 142-197, for a fresh run: the generator is in the state that
\* the construction of the pool left
InitTrain ==
    /\ pc = "while"
    /\ args \in TrainArgsSet
    /\ lr = 1
    /\ epoch = 0
    /\ num_updates = 0
    /\ stop_training = FALSE
    /\ ranking_counter = 0
    /\ is_ranking_stable = FALSE
    /\ corr = Float(-1, 1)
    /\ prev_loss = [k \in 1..args.rank_list_size |-> k - 1]
    /\ sampled_archs \in BuiltPools(args.rank_list_size)
    /\ hash_tables = [k \in 1..Len(sampled_archs) |-> Str(sampled_archs[k])]
    /\ stable_hist = <<>>
    /\ prev_corr_in = Float(-1, 1)
    /\ phases = <<>>
    /\ validated_archs = <<>>
    /\ conv = None
    /\ last_call = None
    /\ recomputed = FALSE
    /\ batch_i = 0
    /\ iterations_in_epoch = 0
    /\ log_output = None
    /\ configs = <<>>
    /\ active_config = <<>>
    /\ rng \in RngStates
    /\ effects = [meter_updates |-> 0, log_entries |-> 0, wps_resets |-> 0,
                  validations |-> 0, checkpoints |-> 0, epoch_stats |-> 0,
                  errors |-> 0]
    /\ step_log = {}
    /\ saved = {}
    /\ resumes = 0
    /\ train_step_calls = 0
    /\ epoch_log = <<>>

\* main, line 200: the while test, before train() is called
TrainWhile ==
    /\ pc = "while"
    /\ pc' = IF /\ LoopCondition(stop_training, lr, args.min_lr, epoch,
                                 OrInf(args.max_epoch), num_updates,
                                 OrInf(args.max_update))
                /\ epoch < MaxTrainEpochs
             THEN "begin" ELSE "finished"
    /\ UNCHANGED <<args, epoch, num_updates, rankVars, poolVars, convVars,
                   trainVars>>

\* train, lines 240-262: next_epoch_itr and the start of the enumeration at
\* epoch_itr.iterations_in_epoch
BeginTrain ==
    /\ pc = "begin"
    /\ epoch' = epoch + 1
    /\ batch_i' = iterations_in_epoch
    /\ iterations_in_epoch' = 0
    /\ epoch_log' = <<>>
    /\ pc' = "for"
    /\ UNCHANGED <<args, num_updates, rankVars, poolVars, convVars, log_output,
                   configs, active_config, rng, effects, step_log, saved,
                   resumes, train_step_calls>>

\* train, lines 262-319: one iteration of the for loop
TrainStep ==
    /\ pc = "for"
    /\ batch_i < args.batches
    /\ \E out \in train_step(num_updates) :
         LET c == TrainStepConfigs(args, num_updates, rng)
             represent == get_represent_configs(args)
             due == PeriodicValidationDue(args.disable_validation,
                                          args.save_interval_updates,
                                          out.num_updates)
             last == batch_i + 1 = args.batches
             break == BreakDue(out.num_updates, OrInf(args.max_update),
                               batch_i, args.max_batch)
         IN  /\ configs' = <<c.config>>
             /\ rng' = c.rng
             /\ log_output' = out.log_output
             /\ num_updates' = out.num_updates
             /\ train_step_calls' = train_step_calls + 1
             /\ epoch_log' = Append(epoch_log,
                  [i |-> batch_i, log_output |-> out.log_output,
                   num_updates |-> out.num_updates,
                   validated |-> ~SkipStep(out.log_output) /\ due])
             /\ step_log' = step_log \cup
                  {[num_updates |-> num_updates, config |-> c.config,
                    rng |-> rng, run |-> resumes, active |-> active_config]}
             /\ IF SkipStep(out.log_output)
                THEN /\ active_config' = <<c.config>>
                     /\ batch_i' = batch_i + 1
                     /\ pc' = "for"
                     /\ UNCHANGED <<effects, saved>>
                ELSE /\ active_config' =
                          IF due THEN <<represent[Len(represent)]>>
                                 ELSE <<c.config>>
                     /\ effects' =
                          [effects EXCEPT
                             !.meter_updates = @ + 1,
                             !.log_entries = @ + 1,
                             !.wps_resets = IF batch_i = 0 THEN @ + 1 ELSE @,
                             !.validations = IF due THEN @ + 1 ELSE @,
                             !.checkpoints = IF due THEN @ + 1 ELSE @]
                     /\ saved' =
                          IF due
                          THEN saved \cup
                                 {[epoch_done |-> IF last THEN epoch ELSE epoch - 1,
                                   offset |-> IF last THEN 0 ELSE batch_i + 1,
                                   num_updates |-> out.num_updates]}
                          ELSE saved
                     /\ batch_i' = IF break THEN batch_i ELSE batch_i + 1
                     /\ pc' = IF break THEN "after_train" ELSE "for"
    /\ UNCHANGED <<args, epoch, iterations_in_epoch, resumes, rankVars,
                   poolVars, convVars>>

\* train: the iterator is exhausted
EndFor ==
    /\ pc = "for"
    /\ ~(batch_i < args.batches)
    /\ pc' = "after_train"
    /\ UNCHANGED <<args, epoch, num_updates, rankVars, poolVars, convVars,
                   trainVars>>

\* train, lines 321-333, and main, lines 205-231, as the trainer sees them:
\* the end-of-epoch statistics (printed whatever the steps of the epoch
\* returned: nothing here raises or reports an error, so effects.errors
\* stays as it is), the rank check that activates every
\* candidate of the pool, the validation that activates every representative
\* configuration, and the epoch-level checkpoint
AfterTrain ==
    /\ pc = "after_train"
    /\ LET represent == get_represent_configs(args)
           ranked == IF args.task # "classification"
                     THEN <<sampled_archs[Len(sampled_archs)]>>
                     ELSE active_config
       IN  active_config' =
             IF ValidationDue(args.disable_validation, epoch,
                              args.validate_interval)
             THEN <<represent[Len(represent)]>>
             ELSE ranked
    /\ effects' = [effects EXCEPT !.epoch_stats = @ + 1]
    /\ saved' = IF CheckpointDue(epoch, args.save_interval)
                THEN saved \cup {[epoch_done |-> epoch, offset |-> 0,
                                  num_updates |-> num_updates]}
                ELSE saved
    /\ pc' = "while"
    /\ UNCHANGED <<args, epoch, num_updates, rankVars, poolVars, convVars,
                   batch_i, iterations_in_epoch, log_output, configs, rng,
                   step_log, resumes, train_step_calls, epoch_log>>

\* the run is ended, between two epochs or after the last, and a new
\* process resumes from a checkpoint (main, line
\* 143): the epoch, the position in it and the update count are those of
\* the checkpoint, the generator (seeded by cli_main and used by the pool
\* construction) is in any state, and no configuration is active yet.  A
\* behaviour is a run and at most one resumed run.
Resume ==
    /\ pc \in {"while", "finished"}
    /\ resumes = 0
    /\ \E snap \in saved :
         /\ epoch' = snap.epoch_done
         /\ iterations_in_epoch' = snap.offset
         /\ num_updates' = snap.num_updates
    /\ rng' \in RngStates
    /\ resumes' = resumes + 1
    /\ batch_i' = 0
    /\ log_output' = None
    /\ configs' = <<>>
    /\ active_config' = <<>>
    /\ epoch_log' = <<>>
    /\ pc' = "while"
    /\ UNCHANGED <<args, rankVars, poolVars, convVars, effects, step_log,
                   saved, train_step_calls>>

NextTrain ==
    \/ TrainWhile
    \/ BeginTrain
    \/ TrainStep
    \/ EndFor
    \/ AfterTrain
    \/ Resume

SpecTrain == InitTrain /\ [][NextTrain]_vars

-----------------------------------------------------------------------------
(* Properties of the training steps, checked under SpecTrain *)

\* C13: a step whose trainer.train_step returns None is skipped: the update
\* count stays, no meter is updated, no log entry is written, no periodic
\* validation or checkpoint happens, and the for loop goes on to the next
\* batch.
C13_NoneStepIsSkipped ==
    [][(train_step_calls' = train_step_calls + 1 /\ log_output' = None)
          => /\ num_updates' = num_updates
             /\ effects' = effects
             /\ saved' = saved
             /\ active_config' = configs'
             /\ batch_i' = batch_i + 1
             /\ pc' = "for"
             /\ epoch' = epoch]_vars

\* C13 witness: after an update that was logged, validated and
\* checkpointed, the next step yielded no loss: although the update count
\* is still one for which the periodic validation is due, there is one log
\* entry, one validation and one checkpoint, and the loop is at the next
\* batch.
C13_Witness ==
    /\ pc = "for"
    /\ log_output = None
    /\ train_step_calls = 2
    /\ batch_i = 2
    /\ num_updates = 1
    /\ PeriodicValidationDue(args.disable_validation,
                             args.save_interval_updates, num_updates)
    /\ effects.meter_updates = 1
    /\ effects.log_entries = 1
    /\ effects.validations = 1
    /\ effects.checkpoints = 1

\* C14: in supernet mode the configuration of a training step is a function
\* of the update count at the start of the step: any two steps, of the same
\* run or of a run and the run resumed from its checkpoint, that start at
\* the same count get the same configuration, whatever state the random
\* generator was in before them.
C14_SameCounterSameConfig ==
    ~args.train_subtransformer
        => \A a, b \in step_log :
              a.num_updates = b.num_updates => a.config = b.config

\* C14 witness: a step of the first run and a step of the resumed run
\* started at the same update count with the generator in different states,
\* and a later step at another count got another configuration.
C14_Witness ==
    /\ ~args.train_subtransformer
    /\ \E a, b, c \in step_log :
          /\ a.num_updates = b.num_updates
          /\ a.run # b.run
          /\ a.rng # b.rng
          /\ c.config # a.config

\* C20: in fixed-subnetwork mode every train_step of every epoch receives
\* the one configuration of the command line, also when the rank check or
\* the validation of the representative configurations has activated
\* another configuration on the trainer since the step before.
C20_FixedModeConfigConstant ==
    args.train_subtransformer
        => /\ \A a \in step_log : a.config = args.subtransformer_config
           /\ configs \in {<<>>, <<args.subtransformer_config>>}

\* C20 witness: a step of the second epoch found a configuration active on
\* the trainer that the rank check or the validation had set, and trained
\* the fixed configuration as the steps of the first epoch did.
C20_Witness ==
    /\ args.train_subtransformer
    /\ epoch = 2
    /\ pc = "for"
    /\ configs = <<args.subtransformer_config>>
    /\ \E a, b \in step_log :
          /\ a.active = <<>>
          /\ b.active # <<>>
          /\ b.active # <<b.config>>
          /\ b.run = a.run

\* the update count n is one at which the periodic validation is to happen:
\* validation is enabled and n is a positive multiple of
\* save_interval_updates > 0
PositiveMultiple(n) ==
    /\ ~args.disable_validation
    /\ args.save_interval_updates > 0
    /\ n > 0
    /\ n % args.save_interval_updates = 0

\* C21: within one call of train() the representative configurations are
\* validated and a checkpoint is written exactly once for every update count
\* reached in it that is a positive multiple of save_interval_updates:
\* never at another count or at count 0, never without a checkpoint, and
\* never a second time for a count at which skipped steps follow.
C21_PeriodicValidationOncePerCount ==
    /\ \A k \in DOMAIN epoch_log :
          epoch_log[k].validated => PositiveMultiple(epoch_log[k].num_updates)
    /\ \A k, l \in DOMAIN epoch_log :
          (/\ k < l
           /\ epoch_log[k].validated
           /\ epoch_log[l].validated)
              => epoch_log[k].num_updates # epoch_log[l].num_updates
    /\ \A k \in DOMAIN epoch_log :
          (/\ epoch_log[k].log_output # None
           /\ PositiveMultiple(epoch_log[k].num_updates))
              => \E l \in DOMAIN epoch_log :
                    /\ epoch_log[l].validated
                    /\ epoch_log[l].num_updates = epoch_log[k].num_updates
    /\ effects.validations = effects.checkpoints

\* C21 witness: with save_interval_updates = 2, the first step of the
\* second epoch brought the update count to 2 and was validated, and the
\* skipped step after it, still at count 2, was not.
C21_Witness ==
    /\ args.save_interval_updates = 2
    /\ epoch = 2
    /\ Len(epoch_log) = 2
    /\ epoch_log[1].validated
    /\ epoch_log[1].num_updates = 2
    /\ epoch_log[2].log_output = None
    /\ epoch_log[2].num_updates = 2
    /\ ~epoch_log[2].validated
    /\ effects.validations = 1

\* C22, as claimed: one call of train() consumes at most max_batch batches
\* of the epoch: no iteration of the step loop has an in-epoch index i of
\* max_batch or more, whatever the offset iterations_in_epoch of a resumed
\* epoch is and whichever steps are skipped.
C22_AtMostMaxBatchBatches ==
    /\ \A k \in DOMAIN epoch_log : epoch_log[k].i < args.max_batch
    /\ Len(epoch_log) <= args.max_batch

\* C23, as claimed: a step without a valid loss is not fatal by itself, but
\* when every step of an epoch yielded no valid loss, an error has been
\* reported by the time train() has returned and the epoch is completed.
C23_AllSkippedEpochSurfaced ==
    /\ (pc = "for" /\ log_output = None) => effects.errors = 0
    /\ (/\ pc = "while"
        /\ epoch_log # <<>>
        /\ \A k \in DOMAIN epoch_log : epoch_log[k].log_output = None)
           => effects.errors > 0

\* C24, as claimed: in every state that set_sample_config calls with valid
\* dims, sample_parameters, profile and forward calls lead to, a non-empty
\* cache agrees with the stored dims: the cached weight has sample_out_dim
\* output and sample_in_dim input channels, the cached bias has
\* sample_out_dim entries, and the output of a forward that succeeded has
\* sample_out_dim channels.  (A state whose stored dims are None has seen no
\* set_sample_config, and one whose stored dims are in range has seen a
\* valid one last, which replaced dims and cache.)
C24_CacheAgreesWithStoredDims ==
    (/\ pc = "conv"
     /\ "weight" \in DOMAIN conv.samples
     /\ \/ conv.sample_in_dim.is_none /\ conv.sample_out_dim.is_none
        \/ /\ ~conv.sample_in_dim.is_none
           /\ ~conv.sample_out_dim.is_none
           /\ conv.sample_in_dim.v \in 1..conv.super_in_dim
           /\ conv.sample_out_dim.v \in 1..conv.super_out_dim)
        => /\ ~conv.sample_in_dim.is_none
           /\ ~conv.sample_out_dim.is_none
           /\ Len(conv.samples["weight"].v) = conv.sample_out_dim.v
           /\ \A o \in DOMAIN conv.samples["weight"].v :
                 Len(conv.samples["weight"].v[o]) = conv.sample_in_dim.v
           /\ Len(conv.samples["bias"].v) = conv.sample_out_dim.v
           /\ (last_call.op = "forward" /\ last_call.ret.err = "")
                 => last_call.ret.val = conv.sample_out_dim.v

=============================================================================
